---- MODULE Spec2Model ----
(***************************************************************************)
(* Model of cosmpy/common/rest_client.py: the RestClient adapter.          *)
(*                                                                         *)
(* Strings that the code concatenates (URLs, query strings) are sequences  *)
(* of tokens, so that base + path is <<base, path>> and a query string is  *)
(* k, "=", v, "&", k, "=", v ...  Byte strings are sequences of byte       *)
(* values.  An Optional is a sequence of length 0 (None) or 1.             *)
(***************************************************************************)
EXTENDS Integers, Sequences, FiniteSets

VARIABLES
    phase,          \* "new" | "alive" | "failed" | "finalized" | "exited"
    session,        \* self._session: id of the session object, 0 = attribute not set
    rest_address,   \* self.rest_address
    given_address,  \* the rest_address argument __init__ was called with
    opened,         \* number of sessions created by requests.session()
    closes,         \* number of times Session.close() ran
    call,           \* the arguments of the last get/post call
    sent,           \* the HTTP requests the last call handed to the session
    response,       \* what the transport delivered to the last call
    outcome         \* how the last call ended

vars == <<phase, session, rest_address, given_address, opened, closes,
          call, sent, response, outcome>>

----------------------------------------------------------------------------
(* Bounds and input sets *)

MaxUsed == 2        \* longest used_params list
MaxEvents == 2      \* longest repeated field

HTTP_OK == 200

Bases == {"http://node1:1317", "http://node2:1317"}
Paths == {"/blocks/latest", "/cosmos/tx/v1beta1/txs"}
StatusCodes == {200, 201, 302, 404, 500}
Bodies == {<<>>, <<123, 125>>}

None == <<>>
Some(x) == <<x>>

\* A request message: a scalar string field, a repeated string field and a
\* message-typed field with one scalar string field of its own.
EventLists == UNION {[1..n -> {"e1"}] : n \in 0..MaxEvents}
PageRequests == [limit : {"", "10"}]
Messages == [order_by : {"", "a b"},
             events : EventLists,
             pagination : {None} \cup {Some(p) : p \in PageRequests}]

Keys == {"orderBy", "events", "pagination", "order_by"}
UsedLists == UNION {[1..n -> Keys] : n \in 0..MaxUsed}

NoResponse == [kind |-> "none", status_code |-> 0, content |-> <<>>]
Responses == [kind : {"response"}, status_code : StatusCodes, content : Bodies]
ConnectionErrors == {[kind |-> "ConnectionError", status_code |-> 0, content |-> <<>>]}

----------------------------------------------------------------------------
(* google.protobuf.json_format.MessageToDict, as called with its defaults *)

StrVal(s) == [t |-> "str", s |-> s, l |-> <<>>, d |-> <<>>]
ListVal(l) == [t |-> "list", s |-> "", l |-> l, d |-> <<>>]
DictVal(d) == [t |-> "dict", s |-> "", l |-> <<>>, d |-> d]
Entry(k, v) == [key |-> k, val |-> v]

\* lowerCamelCase JSON name of a proto field
JsonName(f) == IF f = "order_by" THEN "orderBy" ELSE f

\* a nested message: scalar fields at their default are omitted
PageRequestToDict(p) ==
    IF p.limit # "" THEN <<[key |-> JsonName("limit"), s |-> p.limit]>> ELSE <<>>

\* fields in field-number order; default scalars and empty repeated fields
\* are omitted, a message field that is set is kept even when it is empty
MessageToDict(m) ==
    (IF m.order_by # "" THEN <<Entry(JsonName("order_by"), StrVal(m.order_by))>> ELSE <<>>)
    \o (IF m.events # <<>> THEN <<Entry(JsonName("events"), ListVal(m.events))>> ELSE <<>>)
    \o (IF m.pagination # None
        THEN <<Entry(JsonName("pagination"), DictVal(PageRequestToDict(m.pagination[1])))>>
        ELSE <<>>)

----------------------------------------------------------------------------
(* dict.pop and the removal loop of get *)

HasKey(d, k) == \E i \in 1..Len(d) : d[i].key = k

Remove(d, k) == SelectSeq(d, LAMBDA e : e.key # k)

PopLenient(d, k) == [raised |-> FALSE, key |-> "", dict |-> Remove(d, k)]

\* json_request.pop(param): KeyError when the key is absent
Pop(d, k) ==
    IF HasKey(d, k)
    THEN [raised |-> FALSE, key |-> "", dict |-> Remove(d, k)]
    ELSE [raised |-> TRUE, key |-> k, dict |-> d]

RECURSIVE PopAll(_, _)
\* for param in used_params: json_request.pop(param)
PopAll(d, params) ==
    IF params = <<>>
    THEN [raised |-> FALSE, key |-> "", dict |-> d]
    ELSE LET r == Pop(d, Head(params))
         IN IF r.raised THEN r ELSE PopAll(r.dict, Tail(params))

----------------------------------------------------------------------------
(* urllib.parse.urlencode(query, doseq=True) *)

\* quote_plus on the strings of this model: a space becomes "+"
quote_plus(s) == IF s = "a b" THEN "a+b" ELSE s

PairsOfNoDoseq(e) ==
    IF e.val.t = "str"
    THEN <<[k |-> quote_plus(e.key), v |-> quote_plus(e.val.s)]>>
    ELSE <<[k |-> quote_plus(e.key), v |-> "%5B...%5D"]>>

\* the k=v pairs one item of the mapping contributes: one for a str, one per
\* element for anything with a len() (iterating a dict yields its keys)
PairsOf(e) ==
    IF e.val.t = "str"
    THEN <<[k |-> quote_plus(e.key), v |-> quote_plus(e.val.s)]>>
    ELSE IF e.val.t = "list"
    THEN [i \in 1..Len(e.val.l) |-> [k |-> quote_plus(e.key), v |-> quote_plus(e.val.l[i])]]
    ELSE [i \in 1..Len(e.val.d) |-> [k |-> quote_plus(e.key), v |-> quote_plus(e.val.d[i].key)]]

RECURSIVE AllPairs(_)
AllPairs(d) == IF d = <<>> THEN <<>> ELSE PairsOf(Head(d)) \o AllPairs(Tail(d))

RECURSIVE JoinPairs(_)
\* '&'.join(k + '=' + v ...)
JoinPairs(ps) ==
    IF ps = <<>> THEN <<>>
    ELSE IF Len(ps) = 1 THEN <<ps[1].k, "=", ps[1].v>>
    ELSE <<ps[1].k, "=", ps[1].v, "&">> \o JoinPairs(Tail(ps))

urlencode(d) == JoinPairs(AllPairs(d))

----------------------------------------------------------------------------
(* RestClient.get: building the URL *)

GetUrlAlwaysQuery(base, path, qs) == <<base, path, "?">> \o qs

\* lines 71-74
GetUrl(base, path, qs) ==
    IF Len(qs) = 0 THEN <<base, path>> ELSE <<base, path, "?">> \o qs

EncodeGetPopsWithoutRequest(base, path, request, used_params) ==
    LET json_request == IF request = None THEN <<>> ELSE MessageToDict(request[1])
        popped == IF used_params # None
                  THEN PopAll(json_request, used_params[1])
                  ELSE [raised |-> FALSE, key |-> "", dict |-> json_request]
    IN IF popped.raised
       THEN [raised |-> TRUE, key |-> popped.key, url |-> <<>>]
       ELSE [raised |-> FALSE, key |-> "",
             url |-> GetUrl(base, path, urlencode(popped.dict))]

\* lines 59-74: the URL of the request, or the KeyError of a failed pop
EncodeGet(base, path, request, used_params) ==
    IF request = None
    THEN [raised |-> FALSE, key |-> "", url |-> <<base, path>>]
    ELSE LET json_request == MessageToDict(request[1])
             popped == IF used_params # None
                       THEN PopAll(json_request, used_params[1])
                       ELSE [raised |-> FALSE, key |-> "", dict |-> json_request]
         IN IF popped.raised
            THEN [raised |-> TRUE, key |-> popped.key, url |-> <<>>]
            ELSE [raised |-> FALSE, key |-> "",
                  url |-> GetUrl(base, path, urlencode(popped.dict))]

----------------------------------------------------------------------------
(* The calls into the session and the status check *)

NoHeaders == <<>>
JsonHeaders == << <<"Content-type", "application/json">>,
                  <<"Accept", "application/json">> >>

SessionGetFresh(s, url) ==
    [verb |-> "GET", session |-> s + 1, url |-> url, json |-> <<>>, headers |-> NoHeaders]

\* self._session.get(url=url)
SessionGet(s, url) ==
    [verb |-> "GET", session |-> s, url |-> url, json |-> <<>>, headers |-> NoHeaders]

SessionPostWithQuery(s, base, path, json_request) ==
    [verb |-> "POST", session |-> s,
     url |-> GetUrl(base, path, urlencode(json_request)),
     json |-> json_request, headers |-> JsonHeaders]

\* self._session.post(url=f"{self.rest_address}{url_base_path}", json=..., headers=...)
SessionPost(s, base, path, json_request) ==
    [verb |-> "POST", session |-> s, url |-> <<base, path>>,
     json |-> json_request, headers |-> JsonHeaders]

IssuedWithRetry(req, resp) ==
    IF resp.kind = "response" /\ resp.status_code = HTTP_OK THEN <<req>> ELSE <<req, req>>

\* the requests one call hands to the session: the single call of line 76 / 97
Issued(req, resp) == <<req>>

\* str(response.content): the repr of a bytes object, b'...'
StrBytes(b) == <<98, 39>> \o b \o <<39>>

IsSuccess2xx(code) == code \in 200..299

\* the negation of the test of lines 77 and 103
IsSuccess(code) == code = HTTP_OK

NoMessage == [verb |-> "", request |-> <<>>, status_code |-> 0, content |-> <<>>]
NoOutcome == [kind |-> "none", value |-> <<>>, message |-> NoMessage, key |-> ""]
NoCall == [op |-> "none", path |-> "", request |-> None, used_params |-> None]

ReturnedDecoded(resp) ==
    [kind |-> "return", value |-> StrBytes(resp.content), message |-> NoMessage, key |-> ""]

\* return response.content
Returned(resp) ==
    [kind |-> "return", value |-> resp.content, message |-> NoMessage, key |-> ""]

\* raise RuntimeError(f"... {response.status_code}, {str(response.content)})")
Raised(verb, json_request, resp) ==
    [kind |-> "RuntimeError", value |-> <<>>,
     message |-> [verb |-> verb, request |-> json_request,
                  status_code |-> resp.status_code,
                  content |-> StrBytes(resp.content)],
     key |-> ""]

KeyError(k) == [kind |-> "KeyError", value |-> <<>>, message |-> NoMessage, key |-> k]

Propagated == [kind |-> "ConnectionError", value |-> <<>>, message |-> NoMessage, key |-> ""]

\* lines 76-81 and 97-107: what the call does with what the transport delivered
Finish(verb, json_request, resp) ==
    IF resp.kind = "ConnectionError" THEN Propagated
    ELSE IF IsSuccess(resp.status_code) THEN Returned(resp)
    ELSE Raised(verb, json_request, resp)

----------------------------------------------------------------------------
(* State machine *)

Init ==
    /\ phase = "new"
    /\ session = 0
    /\ rest_address = ""
    /\ given_address = ""
    /\ opened = 0
    /\ closes = 0
    /\ call = NoCall
    /\ sent = <<>>
    /\ response = NoResponse
    /\ outcome = NoOutcome

\* __init__ runs to its end
Construct(addr) ==
    /\ phase = "new"
    /\ phase' = "alive"
    /\ opened' = opened + 1
    /\ session' = opened + 1
    /\ rest_address' = addr
    /\ given_address' = addr
    /\ UNCHANGED <<closes, call, sent, response, outcome>>

\* __init__ raises before self._session is bound (requests.session() fails,
\* or the call does not match the signature): the object exists without it
ConstructFails(addr) ==
    /\ phase = "new"
    /\ phase' = "failed"
    /\ given_address' = addr
    /\ UNCHANGED <<session, rest_address, opened, closes, call, sent, response, outcome>>

\* the transport is reached only when the URL was built: its answer, a
\* response or a connectivity error, is an input of that branch alone
Get(path, request, used_params) ==
    /\ phase = "alive"
    /\ call.op = "none"
    /\ LET enc == EncodeGet(rest_address, path, request, used_params)
       IN IF enc.raised
          THEN /\ sent' = <<>>
               /\ response' = NoResponse
               /\ outcome' = KeyError(enc.key)
          ELSE \E resp \in Responses \cup ConnectionErrors :
                 /\ sent' = Issued(SessionGet(session, enc.url), resp)
                 /\ response' = resp
                 /\ outcome' = Finish("GET", <<>>, resp)
    /\ call' = [op |-> "get", path |-> path, request |-> request, used_params |-> used_params]
    /\ UNCHANGED <<phase, session, rest_address, given_address, opened, closes>>

Post(path, request, resp) ==
    /\ phase = "alive"
    /\ call.op = "none"
    /\ LET json_request == MessageToDict(request)
       IN /\ sent' = Issued(SessionPost(session, rest_address, path, json_request), resp)
          /\ response' = resp
          /\ outcome' = Finish("POST", json_request, resp)
    /\ call' = [op |-> "post", path |-> path, request |-> Some(request), used_params |-> None]
    /\ UNCHANGED <<phase, session, rest_address, given_address, opened, closes>>

\* the caller has taken the result or the exception of the call
CallerResumes ==
    /\ phase = "alive"
    /\ call.op # "none"
    /\ call' = NoCall
    /\ sent' = <<>>
    /\ response' = NoResponse
    /\ outcome' = NoOutcome
    /\ UNCHANGED <<phase, session, rest_address, given_address, opened, closes>>

\* __del__, run by the interpreter once the object is unreachable;
\* self._session is an AttributeError when __init__ never bound it
Del ==
    /\ phase \in {"alive", "failed"}
    /\ phase' = "finalized"
    /\ closes' = IF session # 0 THEN closes + 1 ELSE closes
    /\ UNCHANGED <<session, rest_address, given_address, opened, call, sent, response, outcome>>

\* the interpreter exits with the object still alive; __del__ is not run
InterpreterExit ==
    /\ phase = "alive"
    /\ phase' = "exited"
    /\ UNCHANGED <<session, rest_address, given_address, opened, closes,
                   call, sent, response, outcome>>

DoConstruct == \E addr \in Bases : Construct(addr)
DoConstructFails == \E addr \in Bases : ConstructFails(addr)
DoGet ==
    \E path \in Paths, request \in {None} \cup {Some(m) : m \in Messages},
       used_params \in {None} \cup {Some(u) : u \in UsedLists} :
        Get(path, request, used_params)
DoPost ==
    \E path \in Paths, request \in Messages, resp \in Responses \cup ConnectionErrors :
        Post(path, request, resp)

Next ==
    \/ DoConstruct
    \/ DoConstructFails
    \/ DoGet
    \/ DoPost
    \/ CallerResumes
    \/ Del
    \/ InterpreterExit

Spec == Init /\ [][Next]_vars

----------------------------------------------------------------------------
(* Vocabulary of the properties, read off the message and the URL directly *)

Range(f) == {f[i] : i \in DOMAIN f}

\* the keys the encoded mapping of message m holds
EncodedKeys(m) ==
    (IF m.order_by # "" THEN {"orderBy"} ELSE {})
    \cup (IF m.events # <<>> THEN {"events"} ELSE {})
    \cup (IF m.pagination # None THEN {"pagination"} ELSE {})

\* the keys whose value is a collection without elements
EmptyValuedKeys(m) ==
    IF m.pagination # None /\ m.pagination[1].limit = "" THEN {"pagination"} ELSE {}

Excluded == IF call.used_params = None THEN {} ELSE Range(call.used_params[1])

\* the positions of the URL at which a key=value pair starts
PairStarts(url) == {i \in 1..(Len(url) - 2) : url[i + 1] = "="}
QueryKeys(url) == {url[i] : i \in PairStarts(url)}
PairCount(url, k) == Cardinality({i \in PairStarts(url) : url[i] = k})

ReachedTransport == outcome.kind \in {"return", "RuntimeError", "ConnectionError"}

GetWithRequest == call.op = "get" /\ call.request # None

\* the first position of used_params whose key is absent when it is removed
AbsentAt(u, keys) ==
    {i \in 1..Len(u) : u[i] \notin keys \/ \E j \in 1..(i - 1) : u[j] = u[i]}

----------------------------------------------------------------------------
(* C1: a response whose status code is not 200 makes get and post raise a  *)
(* RuntimeError that carries the status code and the body; the error of    *)
(* post also carries the encoded request that was sent.                    *)
C1_NonOkRaises ==
    (call.op # "none" /\ response.kind = "response" /\ response.status_code # 200)
    => /\ outcome.kind = "RuntimeError"
       /\ outcome.value = <<>>
       /\ outcome.message.status_code = response.status_code
       /\ Len(outcome.message.content) = Len(response.content) + 3
       /\ SubSeq(outcome.message.content, 3, Len(outcome.message.content) - 1)
            = response.content
       /\ call.op = "post" => outcome.message.request = sent[1].json

C1_Witness ==
    /\ call.op = "post"
    /\ response.kind = "response" /\ response.status_code = 201
    /\ response.content # <<>>
    /\ sent[1].json # <<>>
    /\ outcome.kind = "RuntimeError"

(* C2: a response with status code 200 makes get and post return exactly   *)
(* the body bytes the transport delivered.                                 *)
C2_OkReturnsBody ==
    (call.op # "none" /\ response.kind = "response" /\ response.status_code = 200)
    => outcome.kind = "return" /\ outcome.value = response.content

C2_Witness ==
    /\ GetWithRequest
    /\ response.kind = "response" /\ response.status_code = 200
    /\ response.content # <<>>
    /\ outcome.kind = "return"

(* C3: in get with a request, a used_params key that is absent from the    *)
(* encoded mapping when it is removed (never there, or removed before)     *)
(* makes the call fail with a KeyError for that key.                       *)
C3_AbsentKeyRaises ==
    (GetWithRequest /\ call.used_params # None
       /\ AbsentAt(call.used_params[1], EncodedKeys(call.request[1])) # {})
    => LET u == call.used_params[1]
           bad == AbsentAt(u, EncodedKeys(call.request[1]))
           first == CHOOSE i \in bad : \A j \in bad : i <= j
       IN outcome.kind = "KeyError" /\ outcome.key = u[first]

C3_Witness ==
    /\ GetWithRequest
    /\ call.used_params = Some(<<"events", "events">>)
    /\ call.request[1].events # <<>>
    /\ outcome.kind = "KeyError" /\ outcome.key = "events"

(* C4 as stated: in get with a request whose encoded mapping is non-empty  *)
(* after exclusion, the URL is base + path + "?" + query string, the query *)
(* string holds exactly the remaining keys, and a list of n values yields  *)
(* n pairs.                                                                *)
C4_Original ==
    (GetWithRequest /\ ReachedTransport
       /\ EncodedKeys(call.request[1]) \ Excluded # {})
    => LET url == sent[1].url
           m == call.request[1]
       IN /\ Len(url) > 3
          /\ SubSeq(url, 1, 3) = <<rest_address, call.path, "?">>
          /\ QueryKeys(url) = EncodedKeys(m) \ Excluded
          /\ "events" \notin Excluded => PairCount(url, "events") = Len(m.events)

(* C4 amended: the same, for the remaining keys whose value is a scalar or *)
(* a collection with at least one element, when there is such a key.       *)
C4_QueryString ==
    (GetWithRequest /\ ReachedTransport
       /\ (EncodedKeys(call.request[1]) \ Excluded) \ EmptyValuedKeys(call.request[1]) # {})
    => LET url == sent[1].url
           m == call.request[1]
       IN /\ Len(url) > 3
          /\ SubSeq(url, 1, 3) = <<rest_address, call.path, "?">>
          /\ QueryKeys(url) = (EncodedKeys(m) \ Excluded) \ EmptyValuedKeys(m)
          /\ "events" \notin Excluded => PairCount(url, "events") = Len(m.events)
          /\ Len(url) = 3 + 4 * Cardinality(PairStarts(url)) - 1

C4_Witness ==
    /\ GetWithRequest /\ ReachedTransport
    /\ call.used_params = Some(<<"orderBy">>)
    /\ Len(call.request[1].events) = 2
    /\ call.request[1].pagination = Some([limit |-> "10"])
    /\ QueryKeys(sent[1].url) = {"events", "pagination"}
    /\ PairCount(sent[1].url, "events") = 2

(* C5: get without a request, get with a request that has no field set,   *)
(* and get with a request whose every encoded key is excluded all target   *)
(* base + path, without a "?".                                             *)
C5_BareUrl ==
    (call.op = "get" /\ ReachedTransport
       /\ \/ call.request = None
          \/ EncodedKeys(call.request[1]) = {}
          \/ EncodedKeys(call.request[1]) \subseteq Excluded)
    => sent[1].url = <<rest_address, call.path>>

C5_Witness ==
    /\ GetWithRequest /\ ReachedTransport
    /\ EncodedKeys(call.request[1]) = {"orderBy", "events"}
    /\ Excluded = {"orderBy", "events"}
    /\ sent[1].url = <<rest_address, call.path>>

(* C6: post targets base + path, never with a query string, sends the full *)
(* encoded mapping as the JSON body and declares JSON in the Content-type  *)
(* and Accept headers.                                                     *)
C6_PostRequest ==
    call.op = "post"
    => /\ Len(sent) >= 1
       /\ \A i \in 1..Len(sent) :
            /\ sent[i].verb = "POST"
            /\ sent[i].url = <<rest_address, call.path>>
            /\ {sent[i].json[j].key : j \in 1..Len(sent[i].json)}
                 = EncodedKeys(call.request[1])
            /\ sent[i].json = MessageToDict(call.request[1])
            /\ Range(sent[i].headers) = {<<"Content-type", "application/json">>,
                                         <<"Accept", "application/json">>}

C6_Witness ==
    /\ call.op = "post"
    /\ EncodedKeys(call.request[1]) = {"orderBy", "events", "pagination"}
    /\ Len(sent[1].json) = 3
    /\ sent[1].url = <<rest_address, call.path>>

(* C7: once the adapter's lifetime is over, the session was closed exactly *)
(* once: not zero times, not twice, also when construction failed.         *)
C7_ClosedExactlyOnce ==
    phase \in {"finalized", "exited"} => closes = 1

(* C8: while the adapter is in use, its session is the one created at      *)
(* construction, no other session was created, none was closed, the base  *)
(* address is the one given at construction, and every request of a call   *)
(* went through that session with that base as the first part of its URL.  *)
C8_OneSessionOneBase ==
    phase = "alive"
    => /\ session = 1 /\ opened = 1 /\ closes = 0
       /\ rest_address = given_address
       /\ \A i \in 1..Len(sent) :
            /\ sent[i].session = session
            /\ Len(sent[i].url) >= 2
            /\ sent[i].url[1] = given_address

C8_Witness ==
    /\ phase = "alive"
    /\ call.op = "get"
    /\ outcome.kind = "RuntimeError"
    /\ Len(sent) = 1 /\ sent[1].session = 1
    /\ given_address = "http://node2:1317"

(* C9: a call hands at most one request to the session: exactly one when   *)
(* it reaches the transport, whatever the outcome, and none when get fails *)
(* with a KeyError.                                                        *)
C9_AtMostOneRequest ==
    call.op # "none"
    => /\ Len(sent) <= 1
       /\ ReachedTransport => Len(sent) = 1
       /\ outcome.kind = "KeyError" => Len(sent) = 0
       /\ ReachedTransport \/ outcome.kind = "KeyError"

C9_Witness ==
    /\ call.op = "get"
    /\ response.kind = "response" /\ response.status_code = 500
    /\ outcome.kind = "RuntimeError"
    /\ Len(sent) = 1

(* C10: get without a request ignores used_params: whatever the list, no   *)
(* KeyError is raised and the request goes to base + path.                 *)
C10_NoRequestIgnoresUsedParams ==
    (call.op = "get" /\ call.request = None)
    => /\ outcome.kind # "KeyError"
       /\ Len(sent) = 1
       /\ sent[1].url = <<rest_address, call.path>>

C10_Witness ==
    /\ call.op = "get" /\ call.request = None
    /\ call.used_params = Some(<<"orderBy", "pagination">>)
    /\ Len(sent) = 1
    /\ outcome.kind = "return"

====
